---- MODULE Spec2Model ----
(***************************************************************************)
(* A model of encodingman's core (src-tauri/src): the encoding detector    *)
(* and converter (encoder.rs), the candidate scorer (scorer.rs), the       *)
(* temp-file launcher (launcher.rs) and the three per-file commands of     *)
(* lib.rs (batch_convert, detect_and_convert, process_file_silent).        *)
(*                                                                         *)
(* Bytes are the integers 0..255, text is a sequence of Unicode scalar     *)
(* values, a file name is a sequence of one-character strings.             *)
(***************************************************************************)
EXTENDS Integers, Sequences, FiniteSets, TLC

VARIABLES
    \* ---- codec calls (encoder.rs / scorer.rs as pure functions)
    data,           \* the byte sequence handed to the function
    label,          \* the encoding name handed to convert_to_utf8_bom
    op,             \* which function was called last ("none" before a call)
    out,            \* what it returned
    scorer_calls,   \* how many times scorer::best_encoding ran in that call
    \* ---- classifier calls (encoder::is_binary_file)
    cname,          \* file name of the classified path
    cdata,          \* contents of the classified file
    cread,          \* whether fs::read of it succeeds
    cres,           \* the verdict: None before the call, then Some(verdict)
    \* ---- the commands of lib.rs over a file system
    fs,             \* path -> contents, or Missing
    fs0,            \* the file system when the command was invoked
    pc,             \* "idle", "batch" (inside the for loop), "done"
    cmd,            \* the command invoked
    file_paths,     \* batch_convert's argument
    idx,            \* number of paths the loop has processed
    results,        \* batch_convert's results vector
    converted_count,
    utf8_count,
    binary_count,
    error_count,
    ret,            \* the command's return value
    trace,          \* what the last per-file procedure did, in order
    envs,           \* the outcomes the environment gave each processed path
    writes          \* every path std::fs::write was called on

codecVars == <<data, label, op, out, scorer_calls>>
classVars == <<cname, cdata, cread, cres>>
cmdVars == <<fs, fs0, pc, cmd, file_paths, idx, results, converted_count,
             utf8_count, binary_count, error_count, ret, trace, envs, writes>>
vars == <<codecVars, classVars, cmdVars>>

-----------------------------------------------------------------------------
(* Bounds *)

\* longest byte sequence (after an optional BOM prefix) given to the codec
MaxLen == 3
\* longest list of paths given to batch_convert
MaxPaths == 3
\* most padding bytes that follow a 4-byte file head in the classifier
MaxPad == 4

-----------------------------------------------------------------------------
(* Bytes and byte-order marks *)

\* U+FFFD, the character a lossy decode substitutes
REPLACEMENT == 65533

\* 0x61 'a', 0x82, 0xA0, 0xBB, 0xBF, 0xEF, 0xFE, 0xFF: the BOM bytes, an ASCII
\* letter and the two bytes of Shift_JIS HIRAGANA LETTER A
Bytes == {97, 130, 160, 187, 191, 239, 254, 255}

UTF8_BOM == <<239, 187, 191>>
UTF16LE_BOM == <<255, 254>>
UTF16BE_BOM == <<254, 255>>

\* Option: None is the empty tuple, Some(v) the tuple of v
None == <<>>

Some(v) == <<v>>

Drop(s, n) == SubSeq(s, n + 1, Len(s))

Take(s, n) == SubSeq(s, 1, IF n < Len(s) THEN n ELSE Len(s))

StartsWith(s, p) == Len(s) >= Len(p) /\ SubSeq(s, 1, Len(p)) = p

\* data.len() >= 3 && data[0] == 0xEF && data[1] == 0xBB && data[2] == 0xBF
HasUtf8Bom(d) == Len(d) >= 3 /\ d[1] = 239 /\ d[2] = 187 /\ d[3] = 191

HasUtf16LeBom(d) == Len(d) >= 2 /\ d[1] = 255 /\ d[2] = 254

HasUtf16BeBom(d) == Len(d) >= 2 /\ d[1] = 254 /\ d[2] = 255

\* encoder::strip_bom
strip_bom(d) ==
    IF HasUtf8Bom(d) THEN Drop(d, 3)
    ELSE IF Len(d) >= 2 /\ (HasUtf16LeBom(d) \/ HasUtf16BeBom(d)) THEN Drop(d, 2)
    ELSE d

-----------------------------------------------------------------------------
(* Text: UTF-8 in both directions *)

\* the UTF-8 bytes of one scalar value (what str::as_bytes holds for it)
Utf8EncodeChar(c) ==
    IF c < 128 THEN <<c>>
    ELSE IF c < 2048 THEN <<192 + (c \div 64), 128 + (c % 64)>>
    ELSE IF c < 65536
         THEN <<224 + (c \div 4096), 128 + ((c \div 64) % 64), 128 + (c % 64)>>
    ELSE <<240 + (c \div 262144), 128 + ((c \div 4096) % 64),
           128 + ((c \div 64) % 64), 128 + (c % 64)>>

RECURSIVE Utf8Encode(_)
\* decoded.as_bytes()
Utf8Encode(text) ==
    IF text = <<>> THEN <<>>
    ELSE Utf8EncodeChar(Head(text)) \o Utf8Encode(Tail(text))

RECURSIVE Utf8Step(_, _, _, _, _, _, _, _)
\* the UTF-8 decoder: needed = continuation bytes still expected, cp = the
\* bits gathered, lower..upper = the range the next continuation byte must
\* lie in; an ill-formed prefix becomes one U+FFFD and the offending byte is
\* looked at again
Utf8Step(b, i, needed, cp, lower, upper, acc, err) ==
    IF i > Len(b)
    THEN IF needed # 0
         THEN [text |-> Append(acc, REPLACEMENT), had_errors |-> TRUE]
         ELSE [text |-> acc, had_errors |-> err]
    ELSE LET x == b[i] IN
         IF needed = 0
         THEN IF x <= 127
              THEN Utf8Step(b, i + 1, 0, 0, 128, 191, Append(acc, x), err)
              ELSE IF x \in 194..223
              THEN Utf8Step(b, i + 1, 1, x % 32, 128, 191, acc, err)
              ELSE IF x \in 224..239
              THEN Utf8Step(b, i + 1, 2, x % 16,
                            IF x = 224 THEN 160 ELSE 128,
                            IF x = 237 THEN 159 ELSE 191, acc, err)
              ELSE IF x \in 240..244
              THEN Utf8Step(b, i + 1, 3, x % 8,
                            IF x = 240 THEN 144 ELSE 128,
                            IF x = 244 THEN 143 ELSE 191, acc, err)
              ELSE Utf8Step(b, i + 1, 0, 0, 128, 191,
                            Append(acc, REPLACEMENT), TRUE)
         ELSE IF x \notin lower..upper
              THEN Utf8Step(b, i, 0, 0, 128, 191, Append(acc, REPLACEMENT), TRUE)
              ELSE IF needed = 1
              THEN Utf8Step(b, i + 1, 0, 0, 128, 191,
                            Append(acc, cp * 64 + (x % 64)), err)
              ELSE Utf8Step(b, i + 1, needed - 1, cp * 64 + (x % 64),
                            128, 191, acc, err)

DecodeUtf8(b) == Utf8Step(b, 1, 0, 0, 128, 191, <<>>, FALSE)

\* std::str::from_utf8(content).is_ok()
IsValidUtf8(b) == ~DecodeUtf8(b).had_errors

-----------------------------------------------------------------------------
(* The legacy decoders behind encoding_rs::Encoding::decode *)

\* windows-1252: 0x80..0x9F map through the table, every other byte to itself
Windows1252High ==
    <<8364, 129, 8218, 402, 8222, 8230, 8224, 8225,
      710, 8240, 352, 8249, 338, 141, 381, 143,
      144, 8216, 8217, 8220, 8221, 8226, 8211, 8212,
      732, 8482, 353, 8250, 339, 157, 382, 376>>

DecodeWindows1252(b) ==
    [text |-> [i \in 1..Len(b) |->
                  IF b[i] \in 128..159 THEN Windows1252High[b[i] - 127] ELSE b[i]],
     had_errors |-> FALSE]

RECURSIVE Utf16Step(_, _, _, _, _, _, _)
\* UTF-16: lead = 1 + the pending first byte of a code unit (0 = none),
\* sur = the pending lead surrogate (0 = none)
Utf16Step(b, i, be, lead, sur, acc, err) ==
    IF i > Len(b)
    THEN IF lead # 0 \/ sur # 0
         THEN [text |-> Append(acc, REPLACEMENT), had_errors |-> TRUE]
         ELSE [text |-> acc, had_errors |-> err]
    ELSE IF lead = 0
    THEN Utf16Step(b, i + 1, be, b[i] + 1, sur, acc, err)
    ELSE LET unit == IF be THEN (lead - 1) * 256 + b[i]
                     ELSE b[i] * 256 + (lead - 1) IN
         IF sur # 0
         THEN IF unit \in 56320..57343
              THEN Utf16Step(b, i + 1, be, 0, 0,
                             Append(acc, 65536 + (sur - 55296) * 1024
                                                + (unit - 56320)), err)
              ELSE Utf16Step(b, i - 1, be, 0, 0, Append(acc, REPLACEMENT), TRUE)
         ELSE IF unit \in 55296..56319
              THEN Utf16Step(b, i + 1, be, 0, unit, acc, err)
         ELSE IF unit \in 56320..57343
              THEN Utf16Step(b, i + 1, be, 0, 0, Append(acc, REPLACEMENT), TRUE)
         ELSE Utf16Step(b, i + 1, be, 0, 0, Append(acc, unit), err)

DecodeUtf16(b, be) == Utf16Step(b, 1, be, 0, 0, <<>>, FALSE)

\* The rows of the JIS X 0208 index that two bytes of Bytes can point at
\* (0 = no character). Shift_JIS lead 0x82 reaches rows 3 and 4, EUC-JP leads
\* 0xBB, 0xBF and 0xEF reach rows 27, 31 and 79; rows 93 and 94 are empty.
\* Any other pointer is outside the table and has no value here.
Jis0208(ptr) ==
    CASE ptr = 221 -> 65314   [] ptr = 253 -> 65346
      [] ptr = 283 -> 12354   [] ptr = 310 -> 12381
      [] ptr = 314 -> 12385   [] ptr = 362 -> 12433
      [] ptr = 2470 -> 31639  [] ptr = 2474 -> 36059
      [] ptr = 2522 -> 35468  [] ptr = 2537 -> 26178
      [] ptr = 2846 -> 28024  [] ptr = 2850 -> 30495
      [] ptr = 2898 -> 38543  [] ptr = 2913 -> 35070
      [] ptr = 7358 -> 37860  [] ptr = 7362 -> 37891
      [] ptr = 7410 -> 38358  [] ptr = 7425 -> 38494
      [] ptr \in 8648..8835 -> 0

RECURSIVE ShiftJisStep(_, _, _, _, _)
\* Shift_JIS: lead = the pending lead byte (0 = none)
ShiftJisStep(b, i, lead, acc, err) ==
    IF i > Len(b)
    THEN IF lead # 0
         THEN [text |-> Append(acc, REPLACEMENT), had_errors |-> TRUE]
         ELSE [text |-> acc, had_errors |-> err]
    ELSE LET x == b[i] IN
         IF lead = 0
         THEN IF x <= 128
              THEN ShiftJisStep(b, i + 1, 0, Append(acc, x), err)
              ELSE IF x \in 161..223
              THEN ShiftJisStep(b, i + 1, 0, Append(acc, 65377 + (x - 161)), err)
              ELSE IF x \in 129..159 \/ x \in 224..252
              THEN ShiftJisStep(b, i + 1, x, acc, err)
              ELSE ShiftJisStep(b, i + 1, 0, Append(acc, REPLACEMENT), TRUE)
         ELSE LET offset == IF x < 127 THEN 64 ELSE 65
                  lead_offset == IF lead < 160 THEN 129 ELSE 193
                  ptr == (lead - lead_offset) * 188 + x - offset
                  c == IF ~(x \in 64..126 \/ x \in 128..252) THEN 0
                       ELSE IF ptr \in 8836..10715 THEN 57344 - 8836 + ptr
                       ELSE Jis0208(ptr)
              IN IF c # 0
                 THEN ShiftJisStep(b, i + 1, 0, Append(acc, c), err)
                 ELSE ShiftJisStep(b, IF x <= 127 THEN i ELSE i + 1, 0,
                                   Append(acc, REPLACEMENT), TRUE)

DecodeShiftJis(b) == ShiftJisStep(b, 1, 0, <<>>, FALSE)

RECURSIVE EucJpStep(_, _, _, _, _)
\* EUC-JP: lead = the pending lead byte (0 = none). The JIS X 0212 plane
\* (lead 0x8F) has no table here: 0x8F is not in Bytes.
EucJpStep(b, i, lead, acc, err) ==
    IF i > Len(b)
    THEN IF lead # 0
         THEN [text |-> Append(acc, REPLACEMENT), had_errors |-> TRUE]
         ELSE [text |-> acc, had_errors |-> err]
    ELSE LET x == b[i] IN
         IF lead = 0
         THEN IF x <= 127
              THEN EucJpStep(b, i + 1, 0, Append(acc, x), err)
              ELSE IF x = 142 \/ x \in 161..254
              THEN EucJpStep(b, i + 1, x, acc, err)
              ELSE EucJpStep(b, i + 1, 0, Append(acc, REPLACEMENT), TRUE)
         ELSE IF lead = 142 /\ x \in 161..223
              THEN EucJpStep(b, i + 1, 0, Append(acc, 65377 + (x - 161)), err)
         ELSE LET c == IF lead \in 161..254 /\ x \in 161..254
                       THEN Jis0208((lead - 161) * 94 + x - 161)
                       ELSE 0
              IN IF c # 0
                 THEN EucJpStep(b, i + 1, 0, Append(acc, c), err)
                 ELSE EucJpStep(b, IF x <= 127 THEN i ELSE i + 1, 0,
                                Append(acc, REPLACEMENT), TRUE)

DecodeEucJp(b) == EucJpStep(b, 1, 0, <<>>, FALSE)

\* ISO-2022-JP in its initial (ASCII) state: an ASCII byte is itself, SO, SI
\* and every byte above 0x7F are errors. ESC (0x1B), which would leave the
\* ASCII state, is not in Bytes.
DecodeIso2022Jp(b) ==
    [text |-> [i \in 1..Len(b) |->
                  IF b[i] <= 127 /\ b[i] \notin {14, 15, 27}
                  THEN b[i] ELSE REPLACEMENT],
     had_errors |-> \E i \in 1..Len(b) : b[i] > 127 \/ b[i] \in {14, 15, 27}]

\* Encoding::decode_without_bom_handling
decode_without_bom_handling(enc, b) ==
    CASE enc = "Shift_JIS" -> DecodeShiftJis(b)
      [] enc = "EUC-JP" -> DecodeEucJp(b)
      [] enc = "ISO-2022-JP" -> DecodeIso2022Jp(b)
      [] enc = "UTF-8" -> DecodeUtf8(b)
      [] enc = "UTF-16LE" -> DecodeUtf16(b, FALSE)
      [] enc = "UTF-16BE" -> DecodeUtf16(b, TRUE)
      [] enc = "windows-1252" -> DecodeWindows1252(b)

\* Encoding::for_bom: the encoding a leading BOM names, else `enc`
SniffedEncoding(enc, b) ==
    IF HasUtf8Bom(b) THEN "UTF-8"
    ELSE IF HasUtf16LeBom(b) THEN "UTF-16LE"
    ELSE IF HasUtf16BeBom(b) THEN "UTF-16BE"
    ELSE enc

\* the input behind the BOM Encoding::for_bom found
WithoutSniffedBom(b) ==
    IF HasUtf8Bom(b) THEN Drop(b, 3)
    ELSE IF HasUtf16LeBom(b) \/ HasUtf16BeBom(b) THEN Drop(b, 2)
    ELSE b

\* Encoding::decode: a leading BOM overrides the encoding and is removed
decode(enc, b) ==
    decode_without_bom_handling(SniffedEncoding(enc, b), WithoutSniffedBom(b))

-----------------------------------------------------------------------------
(* IEEE 754 arithmetic, as f64 and f32 carry it out *)

\* Natural numbers of any size are little-endian sequences of 15-bit limbs.


\* the limb base, 2^15: a product of two limbs and two carries stay below 2^31
LIMB == 32768

RECURSIVE BigAddStep(_, _, _, _, _)
BigAddStep(a, b, i, carry, acc) ==
    IF i > Len(a) THEN acc
    ELSE BigAddStep(a, b, i + 1, (a[i] + b[i] + carry) \div LIMB,
                    Append(acc, (a[i] + b[i] + carry) % LIMB))

\* a + b for two numbers of the same length (the sum fits that length)
BigAdd(a, b) == BigAddStep(a, b, 1, 0, <<>>)

RECURSIVE BigSubStep(_, _, _, _, _)
BigSubStep(a, b, i, borrow, acc) ==
    IF i > Len(a) THEN acc
    ELSE BigSubStep(a, b, i + 1, IF a[i] - b[i] - borrow < 0 THEN 1 ELSE 0,
                    Append(acc, (a[i] - b[i] - borrow + LIMB) % LIMB))

\* a - b for a >= b of the same length
BigSub(a, b) == BigSubStep(a, b, 1, 0, <<>>)

\* a < b for two numbers of the same length
BigLess(a, b) ==
    \E i \in 1..Len(a) : a[i] < b[i] /\ \A j \in (i + 1)..Len(a) : a[j] = b[j]

RECURSIVE BigMulRow(_, _, _, _, _, _)
\* acc + x * b * LIMB^(i-1), limb j of b at a time
BigMulRow(acc, x, b, i, j, carry) ==
    IF j > Len(b) THEN [acc EXCEPT ![i + j - 1] = carry]
    ELSE BigMulRow([acc EXCEPT ![i + j - 1] = (acc[i + j - 1] + x * b[j] + carry) % LIMB],
                   x, b, i, j + 1, (acc[i + j - 1] + x * b[j] + carry) \div LIMB)

RECURSIVE BigMulFrom(_, _, _, _)
BigMulFrom(acc, a, b, i) ==
    IF i > Len(a) THEN acc
    ELSE IF a[i] = 0 THEN BigMulFrom(acc, a, b, i + 1)
    ELSE BigMulFrom(BigMulRow(acc, a[i], b, i, 1, 0), a, b, i + 1)

\* a * b, of length Len(a) + Len(b)
BigMul(a, b) == BigMulFrom([i \in 1..(Len(a) + Len(b)) |-> 0], a, b, 1)

\* the number of bits of a limb
LimbBits(x) == IF x = 0 THEN 0 ELSE CHOOSE k \in 1..15 : 2^(k - 1) <= x /\ x < 2^k

\* the index of the highest limb that is not 0 (0 for the number 0)
TopLimb(a) ==
    IF \A i \in 1..Len(a) : a[i] = 0 THEN 0
    ELSE CHOOSE i \in 1..Len(a) : a[i] # 0 /\ \A j \in (i + 1)..Len(a) : a[j] = 0

\* the number of bits of a, whose highest limb that is not 0 is limb `top`
BitLengthAt(a, top) == IF top = 0 THEN 0 ELSE 15 * (top - 1) + LimbBits(a[top])

\* bit k of a (bit 0 is the lowest)
BitOf(a, k) == (a[(k \div 15) + 1] \div 2^(k % 15)) % 2

\* a with its s lowest bits cleared
ClearLowBits(a, s) ==
    [i \in 1..Len(a) |->
        IF 15 * i <= s THEN 0
        ELSE IF 15 * (i - 1) >= s THEN a[i]
        ELSE a[i] - (a[i] % 2^(s - 15 * (i - 1)))]

\* 2^s as a number of n limbs
BigPow2(s, n) == [i \in 1..n |-> IF i = (s \div 15) + 1 THEN 2^(s % 15) ELSE 0]

\* round-to-nearest, ties-to-even, at bit s: `sticky` says that the exact
\* value has further non-zero digits below those of a
RoundAtBit(a, s, sticky) ==
    IF BitOf(a, s - 1) = 1
       /\ (sticky \/ ClearLowBits(a, s - 1) # a \/ BitOf(a, s) = 1)
    THEN BigAdd(ClearLowBits(a, s), BigPow2(s, Len(a)))
    ELSE ClearLowBits(a, s)

RoundFrom(a, p, sticky, bits) ==
    IF bits <= p THEN a ELSE RoundAtBit(a, bits - p, sticky)

\* a rounded to p significant bits, as IEEE 754 rounds by default
RoundSig(a, p, sticky) == RoundFrom(a, p, sticky, BitLengthAt(a, TopLimb(a)))

\* An f64 (or f32) value v in [0, 2^15) is held exactly, as the number
\* v * 2^120: FRAC limbs after the point and one before it.

FRAC == 8

F64_BITS == 53

F32_BITS == 24

\* an integer 0 <= n < LIMB as an f64
FInt(n) == [i \in 1..(FRAC + 1) |-> IF i = FRAC + 1 THEN n ELSE 0]

RECURSIVE DivDigits(_, _, _, _)
\* the digits of rem / d after the point, lowest first, then whether a
\* remainder is left
DivDigits(rem, d, k, acc) ==
    IF k = 0 THEN [digits |-> acc, sticky |-> rem # 0]
    ELSE DivDigits((rem * LIMB) % d, d, k - 1, <<(rem * LIMB) \div d>> \o acc)

\* the quotient's digits rounded to an f64; the 4 lowest limbs are 0 then
FDivRound(q) == SubSeq(RoundSig(q.digits, F64_BITS, q.sticky), 5, FRAC + 5)

\* n as f64 / d as f64 for integers 0 <= n <= d, 0 < d: the nearest f64
FDiv(n, d) == FDivRound(DivDigits(n % d, d, FRAC + 4, <<n \div d>>))

\* x + y, x - y (for x >= y), x * y on f64
FAdd(x, y) == RoundSig(BigAdd(x, y), F64_BITS, FALSE)

FSub(x, y) == RoundSig(BigSub(x, y), F64_BITS, FALSE)

FMul(x, y) == SubSeq(RoundSig(BigMul(x, y), F64_BITS, FALSE), FRAC + 1, 2 * FRAC + 1)

\* x as f32 (as an f64 holds it)
AsF32(x) == RoundSig(x, F32_BITS, FALSE)

\* (x - y).max(0.0)
SubMax0(x, y) == IF BigLess(x, y) THEN FInt(0) ELSE FSub(x, y)

-----------------------------------------------------------------------------
(* scorer.rs *)

\* scorer::CANDIDATE_ENCODINGS, in the order of the array
CANDIDATE_ENCODINGS ==
    <<"Shift_JIS", "EUC-JP", "ISO-2022-JP", "UTF-8", "UTF-16LE", "UTF-16BE",
      "windows-1252">>

\* encoding_rs::Encoding::for_label on the names this model hands it: the
\* seven candidates, three further labels of the Encoding Standard ("sjis",
\* "utf8", "latin1"), AppConfig's target_encoding ("utf-8-bom"), the
\* detected_encoding lib.rs gives a binary file ("binary") and the empty name
for_label(name) ==
    CASE name \in {"Shift_JIS", "sjis"} -> "Shift_JIS"
      [] name = "EUC-JP" -> "EUC-JP"
      [] name = "ISO-2022-JP" -> "ISO-2022-JP"
      [] name \in {"UTF-8", "utf8"} -> "UTF-8"
      [] name = "UTF-16LE" -> "UTF-16LE"
      [] name = "UTF-16BE" -> "UTF-16BE"
      [] name \in {"windows-1252", "latin1"} -> "windows-1252"
      [] name \in {"utf-8-bom", "binary", ""} -> "none"

\* scorer::is_japanese_char
is_japanese_char(ch) ==
    \/ ch \in 12352..12447      \* Hiragana
    \/ ch \in 12448..12543      \* Katakana
    \/ ch \in 19968..40959      \* CJK Unified Ideographs
    \/ ch \in 13312..19903      \* CJK Extension A
    \/ ch \in 63744..64255      \* CJK Compatibility Ideographs
    \/ ch \in 65280..65519      \* Halfwidth/Fullwidth forms
    \/ ch \in 12288..12351      \* CJK Symbols and Punctuation

\* char::is_control: general category Cc
is_control(ch) == ch \in 0..31 \/ ch \in 127..159

Count(text, P(_)) == Cardinality({i \in 1..Len(text) : P(text[i])})

IsReplacement(ch) == ch = REPLACEMENT

\* ch.is_control() && ch != '\n' && ch != '\r' && ch != '\t'
IsCountedControl(ch) == is_control(ch) /\ ch \notin {10, 13, 9}

EncodingScore(name, score, replacement_count, japanese_count, total_chars) ==
    [encoding_name |-> name, score |-> score,
     replacement_count |-> replacement_count,
     japanese_char_count |-> japanese_count, total_chars |-> total_chars]

\* the f64 arithmetic of scorer::score_encoding, operation by operation:
\*   (1.0 - replacement_ratio) * 0.4 + valid_ratio * 0.2
\*     + japanese_ratio * 0.3 + 0.1 - error_penalty, then .max(0.0)
\* (a literal such as 0.4 is the f64 nearest to 4/10, which is what the
\* division 4.0 / 10.0 gives)
F64Score(total_chars, replacement_count, japanese_count, control_count, had_errors) ==
    SubMax0(FAdd(FAdd(FAdd(FMul(FSub(FInt(1), FDiv(replacement_count, total_chars)),
                                FDiv(4, 10)),
                           FMul(FDiv(total_chars - control_count, total_chars),
                                FDiv(2, 10))),
                      FMul(FDiv(japanese_count, total_chars), FDiv(3, 10))),
                 FDiv(1, 10)),
            IF had_errors THEN FDiv(3, 10) ELSE FInt(0))

\* F64Score, worked out once for each tuple of counts score_encoding can
\* arrive at for the texts of this model: up to MaxLen + 3 characters from a
\* byte sequence, up to 4 + MaxPad from a file that holds a padded signature;
\* no character is counted twice (@@ makes the function an explicit table)
ScoreTable ==
    LET n == IF MaxLen + 3 > 4 + MaxPad THEN MaxLen + 3 ELSE 4 + MaxPad
    IN  [t \in {c \in (1..n) \X (0..n) \X (0..n) \X (0..n) \X BOOLEAN : c[2] + c[3] + c[4] <= c[1]}
            |-> F64Score(t[1], t[2], t[3], t[4], t[5])] @@ <<>>

\* the tail of scorer::score_encoding, from the counts on
ScoreFromCounts(name, total_chars, replacement_count, japanese_count, control_count, had_errors) ==
    IF total_chars = 0
    THEN EncodingScore(name, FInt(0), 0, 0, 0)
    ELSE EncodingScore(name,
                       ScoreTable[<<total_chars, replacement_count,
                                    japanese_count, control_count, had_errors>>],
                       replacement_count, japanese_count, total_chars)

\* the loop of scorer::score_encoding over decoded.chars()
ScoreDecoded(name, dec) ==
    ScoreFromCounts(name, Len(dec.text), Count(dec.text, IsReplacement),
                    Count(dec.text, is_japanese_char),
                    Count(dec.text, IsCountedControl), dec.had_errors)

\* scorer::score_encoding
score_encoding(d, name) == ScoreDecoded(name, decode(for_label(name), d))

\* a.score > b.score
ScoreGreater(a, b) == BigLess(b.score, a.score)

RECURSIVE InsertSorted_before_equals(_, _)
\* an insertion that puts x in front of the elements whose score equals its own
InsertSorted_before_equals(sorted, x) ==
    IF sorted = <<>> THEN <<x>>
    ELSE IF ~ScoreGreater(Head(sorted), x) THEN <<x>> \o sorted
    ELSE <<Head(sorted)>> \o InsertSorted_before_equals(Tail(sorted), x)

RECURSIVE InsertSorted(_, _)
\* put x behind every element whose score is not below its own
InsertSorted(sorted, x) ==
    IF sorted = <<>> THEN <<x>>
    ELSE IF ScoreGreater(x, Head(sorted)) THEN <<x>> \o sorted
    ELSE <<Head(sorted)>> \o InsertSorted(Tail(sorted), x)

RECURSIVE SortByScore(_)
\* Vec::sort_by(|a, b| b.score.partial_cmp(&a.score)...): stable, descending
SortByScore(scores) ==
    IF scores = <<>> THEN <<>>
    ELSE InsertSorted(SortByScore(SubSeq(scores, 1, Len(scores) - 1)),
                      scores[Len(scores)])

\* scorer::score_all_encodings
score_all_encodings(d) ==
    SortByScore([i \in 1..Len(CANDIDATE_ENCODINGS) |->
                    score_encoding(d, CANDIDATE_ENCODINGS[i])])

FirstOr(scores, default) == IF scores # <<>> THEN scores[1] ELSE default

\* scorer::best_encoding
best_encoding(d) ==
    FirstOr(score_all_encodings(d), EncodingScore("UTF-8", FInt(0), 0, 0, 0))

-----------------------------------------------------------------------------
(* encoder.rs *)

DetectionResult(name, confidence, calls) ==
    [encoding_name |-> name, confidence |-> confidence, scorer_calls |-> calls]

\* DetectionResult { encoding_name: best.encoding_name, confidence: best.score as f32 }
FromBest(best) == DetectionResult(best.encoding_name, AsF32(best.score), 1)

\* detection with the two UTF-16 marks mixed up
smart_detect_encoding_swapped(d) ==
    IF HasUtf8Bom(d) THEN DetectionResult("UTF-8", FInt(1), 0)
    ELSE IF HasUtf16LeBom(d) THEN DetectionResult("UTF-16BE", FInt(1), 0)
    ELSE IF HasUtf16BeBom(d) THEN DetectionResult("UTF-16LE", FInt(1), 0)
    ELSE FromBest(best_encoding(d))

\* encoder::smart_detect_encoding; the confidence is an f32
\* and scorer_calls counts the calls of scorer::best_encoding
smart_detect_encoding(d) ==
    IF HasUtf8Bom(d) THEN DetectionResult("UTF-8", FInt(1), 0)
    ELSE IF Len(d) >= 2 /\ HasUtf16LeBom(d) THEN DetectionResult("UTF-16LE", FInt(1), 0)
    ELSE IF Len(d) >= 2 /\ HasUtf16BeBom(d) THEN DetectionResult("UTF-16BE", FInt(1), 0)
    ELSE FromBest(best_encoding(d))

\* a check that takes only text behind a UTF-8 BOM for UTF-8
is_already_utf8_bom_only(d) == HasUtf8Bom(d) /\ IsValidUtf8(Drop(d, 3))

\* encoder::is_already_utf8
is_already_utf8(d) == IsValidUtf8(IF HasUtf8Bom(d) THEN Drop(d, 3) ELSE d)

ConvOk(bytes) == [ok |-> TRUE, bytes |-> bytes, err |-> ""]

ConvErr(msg) == [ok |-> FALSE, bytes |-> <<>>, err |-> msg]

\* result.extend_from_slice(BOM); result.extend_from_slice(decoded.as_bytes())
WithBom(dec) == ConvOk(UTF8_BOM \o Utf8Encode(dec.text))

\* a strict conversion, which refuses input the decoder reports errors on
StrictWithBom(dec) ==
    IF dec.had_errors THEN ConvErr("Decode failure") ELSE WithBom(dec)

convert_to_utf8_bom_strict(d, source_encoding_name) ==
    IF for_label(source_encoding_name) = "none"
    THEN ConvErr("Unknown encoding")
    ELSE StrictWithBom(decode(for_label(source_encoding_name), strip_bom(d)))

\* encoder::convert_to_utf8_bom
convert_to_utf8_bom(d, source_encoding_name) ==
    IF for_label(source_encoding_name) = "none"
    THEN ConvErr("Unknown encoding")
    ELSE WithBom(decode(for_label(source_encoding_name), strip_bom(d)))

\* encoder::supported_encodings
supported_encodings ==
    <<"Shift_JIS", "UTF-8", "EUC-JP", "ISO-2022-JP", "UTF-16LE", "UTF-16BE",
      "windows-1252">>

-----------------------------------------------------------------------------
(* Paths and the binary classifier *)

\* encoder::BINARY_EXTENSIONS
BINARY_EXTENSIONS ==
    {
     <<"x", "l", "s">>, <<"x", "l", "s", "x">>, <<"x", "l", "s", "m">>,
     <<"x", "l", "s", "b">>, <<"d", "o", "c">>, <<"d", "o", "c", "x">>,
     <<"d", "o", "c", "m">>, <<"p", "p", "t">>, <<"p", "p", "t", "x">>,
     <<"p", "p", "t", "m">>, <<"p", "d", "f">>, <<"z", "i", "p">>,
     <<"r", "a", "r">>, <<"7", "z">>, <<"g", "z">>, <<"t", "a", "r">>,
     <<"p", "n", "g">>, <<"j", "p", "g">>, <<"j", "p", "e", "g">>,
     <<"g", "i", "f">>, <<"b", "m", "p">>, <<"i", "c", "o">>,
     <<"w", "e", "b", "p">>, <<"s", "v", "g">>, <<"m", "p", "3">>,
     <<"w", "a", "v">>, <<"o", "g", "g">>, <<"f", "l", "a", "c">>,
     <<"m", "p", "4">>, <<"a", "v", "i">>, <<"m", "k", "v">>,
     <<"m", "o", "v">>, <<"e", "x", "e">>, <<"d", "l", "l">>,
     <<"m", "s", "i">>}

\* the index of the last "." of a file name, 0 when it has none
LastDot(name) ==
    LET dots == {i \in 1..Len(name) : name[i] = "."} IN
    IF dots = {} THEN 0 ELSE CHOOSE i \in dots : \A j \in dots : j <= i

\* Path::extension: the part after the last ".", none for a name without
\* "." or whose only "." is its first character
extension(name) ==
    IF LastDot(name) <= 1 THEN [some |-> FALSE, val |-> <<>>]
    ELSE [some |-> TRUE, val |-> Drop(name, LastDot(name))]

\* Path::file_stem: the name up to its extension
file_stem(name) ==
    IF LastDot(name) <= 1 THEN name ELSE SubSeq(name, 1, LastDot(name) - 1)

\* char::to_lowercase on an ASCII letter
LowerChar(c) ==
    CASE c = "A" -> "a" [] c = "B" -> "b" [] c = "C" -> "c" [] c = "D" -> "d"
      [] c = "E" -> "e" [] c = "F" -> "f" [] c = "G" -> "g" [] c = "H" -> "h"
      [] c = "I" -> "i" [] c = "J" -> "j" [] c = "K" -> "k" [] c = "L" -> "l"
      [] c = "M" -> "m" [] c = "N" -> "n" [] c = "O" -> "o" [] c = "P" -> "p"
      [] c = "Q" -> "q" [] c = "R" -> "r" [] c = "S" -> "s" [] c = "T" -> "t"
      [] c = "U" -> "u" [] c = "V" -> "v" [] c = "W" -> "w" [] c = "X" -> "x"
      [] c = "Y" -> "y" [] c = "Z" -> "z"
      [] OTHER -> c

\* str::to_lowercase
to_lowercase(w) == [i \in 1..Len(w) |-> LowerChar(w[i])]

\* the magic-byte test alone
HasMagic(d) ==
    \/ d[1] = 80 /\ d[2] = 75 /\ d[3] = 3 /\ d[4] = 4         \* ZIP
    \/ d[1] = 208 /\ d[2] = 207 /\ d[3] = 17 /\ d[4] = 224    \* OLE2
    \/ d[1] = 37 /\ d[2] = 80 /\ d[3] = 68 /\ d[4] = 70       \* PDF

\* a classifier that compares the extension as it is spelled
is_binary_file_case_sensitive(name, rd) ==
    IF extension(name).some /\ extension(name).val \in BINARY_EXTENSIONS
    THEN [binary |-> TRUE, reads |-> 0]
    ELSE IF rd.ok /\ Len(rd.bytes) >= 8 /\ HasMagic(rd.bytes)
    THEN [binary |-> TRUE, reads |-> 1]
    ELSE [binary |-> FALSE, reads |-> 1]

\* encoder::is_binary_file on a path with file name `name`, where rd is what
\* fs::read(path) gives if it is called; reads counts the calls of fs::read
is_binary_file(name, rd) ==
    IF extension(name).some
       /\ to_lowercase(extension(name).val) \in BINARY_EXTENSIONS
    THEN [binary |-> TRUE, reads |-> 0]
    ELSE IF rd.ok /\ Len(rd.bytes) >= 8 /\ HasMagic(rd.bytes)
    THEN [binary |-> TRUE, reads |-> 1]
    ELSE [binary |-> FALSE, reads |-> 1]

-----------------------------------------------------------------------------
(* Calls of the codec functions on bounded inputs *)

BoundedSeq(S, n) == UNION {[1..k -> S] : k \in 0..n}

\* the byte sequences tried: up to MaxLen bytes of Bytes, bare or behind one
\* of the three byte-order marks
Inputs ==
    {p \o b : p \in {<<>>, UTF8_BOM, UTF16LE_BOM, UTF16BE_BOM},
              b \in BoundedSeq(Bytes, MaxLen)}

\* the encoding names tried
Names ==
    {"Shift_JIS", "EUC-JP", "ISO-2022-JP", "UTF-8", "UTF-16LE", "UTF-16BE",
     "windows-1252", "sjis", "utf8", "latin1", "utf-8-bom", "binary", ""}

SupportedSet == {supported_encodings[i] : i \in 1..Len(supported_encodings)}

CodecIdle ==
    /\ label = "" /\ op = "none" /\ out = <<>> /\ scorer_calls = 0

ClassIdle ==
    /\ cname = <<>> /\ cdata = <<>> /\ cread = FALSE /\ cres = <<>>

InitCodec ==
    /\ data \in Inputs
    /\ CodecIdle

CallSmartDetect ==
    /\ op = "none"
    /\ op' = "smart_detect_encoding"
    /\ out' = smart_detect_encoding(data)
    /\ scorer_calls' = out'.scorer_calls
    /\ UNCHANGED <<data, label>>
    /\ UNCHANGED <<classVars, cmdVars>>

CallConvert ==
    /\ op = "none"
    /\ \E name \in Names :
          /\ label' = name
          /\ out' = convert_to_utf8_bom(data, name)
    /\ op' = "convert_to_utf8_bom"
    /\ UNCHANGED <<data, scorer_calls>>
    /\ UNCHANGED <<classVars, cmdVars>>

CallIsAlreadyUtf8 ==
    /\ op = "none"
    /\ op' = "is_already_utf8"
    /\ out' = is_already_utf8(data)
    /\ UNCHANGED <<data, label, scorer_calls>>
    /\ UNCHANGED <<classVars, cmdVars>>

CallStripBom ==
    /\ op = "none"
    /\ op' = "strip_bom"
    /\ out' = [once |-> strip_bom(data)]
    /\ UNCHANGED <<data, label, scorer_calls>>
    /\ UNCHANGED <<classVars, cmdVars>>

CallScoreAllEncodings ==
    /\ op = "none"
    /\ op' = "score_all_encodings"
    /\ out' = score_all_encodings(data)
    /\ UNCHANGED <<data, label, scorer_calls>>
    /\ UNCHANGED <<classVars, cmdVars>>

CallBestEncoding ==
    /\ op = "none"
    /\ op' = "best_encoding"
    /\ out' = best_encoding(data)
    /\ UNCHANGED <<data, label, scorer_calls>>
    /\ UNCHANGED <<classVars, cmdVars>>

\* strip_bom on what strip_bom returned
CallStripBomAgain ==
    /\ op = "strip_bom"
    /\ op' = "strip_bom_twice"
    /\ out' = [once |-> out.once, twice |-> strip_bom(out.once)]
    /\ UNCHANGED <<data, label, scorer_calls>>
    /\ UNCHANGED <<classVars, cmdVars>>

-----------------------------------------------------------------------------
(* Calls of the classifier on bounded files *)

\* a.csv, r.Xls, b.PDF, n (no extension), .pdf (a dot file: no extension)
FileNames ==
    {<<"a", ".", "c", "s", "v">>, <<"r", ".", "X", "l", "s">>,
     <<"b", ".", "P", "D", "F">>, <<"n">>, <<".", "p", "d", "f">>}

ZIP_MAGIC == <<80, 75, 3, 4>>
OLE2_MAGIC == <<208, 207, 17, 224>>
PDF_MAGIC == <<37, 80, 68, 70>>

\* the first bytes of the files tried: the three signatures, four letters,
\* and a signature cut short
FileHeads == {ZIP_MAGIC, OLE2_MAGIC, PDF_MAGIC, <<97, 97, 97, 97>>, <<80, 75, 3>>}

Zeros(k) == [i \in 1..k |-> 0]

InitClassify ==
    /\ cname \in FileNames
    /\ cdata \in {h \o Zeros(k) : h \in FileHeads, k \in 0..MaxPad}
    /\ cread \in BOOLEAN
    /\ cres = <<>>

\* fs::read of a file holding `bytes`, which succeeds or not
ReadResult(ok, bytes) ==
    IF ok THEN [ok |-> TRUE, bytes |-> bytes] ELSE [ok |-> FALSE, bytes |-> <<>>]

CallIsBinaryFile ==
    /\ cres = None
    /\ cres' = Some(is_binary_file(cname, ReadResult(cread, cdata)))
    /\ UNCHANGED <<cname, cdata, cread>>
    /\ UNCHANGED <<codecVars, cmdVars>>

-----------------------------------------------------------------------------
(* The file system and launcher.rs *)

\* what the file system holds at a path where there is no file
Missing == <<-1>>

\* std::env::temp_dir().join("encodingman")
TEMP_DIR == "tmp/encodingman"

pA == [dir |-> "data", name |-> <<"a", ".", "c", "s", "v">>]
pX == [dir |-> "data", name |-> <<"r", ".", "X", "l", "s">>]
pT == [dir |-> TEMP_DIR,
       name |-> <<"a", "_", "u", "t", "f", "8", ".", "c", "s", "v">>]

\* the paths a command may be given
Paths == {pA, pX, pT}

\* the path create_temp_file writes for a file name
temp_path_of(original_name) ==
    LET stem == file_stem(original_name)
        ext == IF extension(original_name).some
               THEN extension(original_name).val ELSE <<"c", "s", "v">>
    IN [dir |-> TEMP_DIR,
        name |-> stem \o <<"_", "u", "t", "f", "8", ".">> \o ext]

AllPaths == Paths \cup {temp_path_of(p.name) : p \in Paths}

\* file contents: Shift_JIS text, UTF-8 text behind a BOM and a ZIP archive
\* (a failed write adds the empty file)
cSjis == <<130, 160>>
cUtf8 == <<239, 187, 191, 97>>
cZip == ZIP_MAGIC \o Zeros(4)
\* 80: no candidate decodes it to better than a windows-1252 euro sign
cEuro == <<128>>

\* what each path may hold when a command starts
InitialContents(p) ==
    CASE p = pA -> {Missing, cSjis, cUtf8, cZip, cEuro}
      [] p = pX -> {Missing, cSjis, cZip}
      [] p = pT -> {Missing, cSjis}
      [] OTHER -> {Missing}

\* what the environment decides while one file is processed: whether
\* fs::read inside is_binary_file succeeds (read_magic), whether
\* read_file_bytes succeeds (read_full), how create_temp_file ends (temp), and
\* whether the viewer starts (launch)
TempOutcomes == {"ok", "mkdir_failed", "write_refused", "write_partial"}

Env ==
    [read_magic : BOOLEAN, read_full : BOOLEAN, temp : TempOutcomes,
     launch : BOOLEAN]

DefaultEnv ==
    [read_magic |-> TRUE, read_full |-> TRUE, temp |-> "ok", launch |-> TRUE]

TempOk(f, temp_path, bytes) ==
    [ok |-> TRUE, path |-> temp_path, err |-> "",
     fs |-> [f EXCEPT ![temp_path] = bytes], writes |-> {temp_path}]

TempErr(f, temp_path, msg, wrote) ==
    [ok |-> FALSE, path |-> temp_path, err |-> msg, fs |-> f,
     writes |-> IF wrote THEN {temp_path} ELSE {}]

\* std::fs::write(&temp_path, data) and what precedes it, by outcome.
\* create_dir_all may fail (nothing written); fs::write may be refused when
\* it opens the file (nothing changes) or fail after it has created or
\* truncated the file (the file is left empty).
WriteTemp(f, temp_path, bytes, outcome) ==
    CASE outcome = "ok" -> TempOk(f, temp_path, bytes)
      [] outcome = "mkdir_failed" ->
            TempErr(f, temp_path, "Failed to create temp directory", FALSE)
      [] outcome = "write_refused" ->
            TempErr(f, temp_path, "Failed to write temp file", TRUE)
      [] outcome = "write_partial" ->
            TempErr([f EXCEPT ![temp_path] = <<>>], temp_path,
                    "Failed to write temp file", TRUE)

\* launcher::create_temp_file
create_temp_file(f, original_name, bytes, outcome) ==
    WriteTemp(f, temp_path_of(original_name), bytes, outcome)

\* launcher::launch_app: the viewer starts or it does not
launch_app(ok) ==
    IF ok THEN [ok |-> TRUE, err |-> ""]
    ELSE [ok |-> FALSE, err |-> "Failed to open file"]

\* encoder::read_file_bytes, and fs::read inside is_binary_file
read_file(f, p, ok) == ReadResult(ok /\ f[p] # Missing, IF f[p] = Missing THEN <<>> ELSE f[p])

-----------------------------------------------------------------------------
(* lib.rs: the per-file procedures *)

FileResult(p, status, enc, msg) ==
    [file_path |-> p, file_name |-> p.name, status |-> status,
     detected_encoding |-> enc, error_message |-> msg]

\* `x_count += 1; results.push(..)`: the result with the counter its branch adds to
Counted(counter, result) == [result |-> result, counter |-> counter]

\* what a per-file procedure did: its value (a BatchFileResult or a return
\* value), the file system afterwards, the calls it made in order, the paths
\* fs::write was called on, and the part of the environment it consulted
Did(value, f, calls, w, used) ==
    [value |-> value, fs |-> f, trace |-> calls, writes |-> w, used |-> used]

\* the calls up to the verdict of is_binary_file
TraceHead(bin) ==
    <<"exists">> \o (IF bin.reads = 1 THEN <<"fs_read">> ELSE <<>>)

TraceRead(bin) == TraceHead(bin) \o <<"read_file_bytes", "is_already_utf8">>

TraceConv(bin) ==
    TraceRead(bin) \o <<"smart_detect_encoding", "convert_to_utf8_bom">>

\* encoder::is_binary_file(path) as the procedures call it, with a note of
\* whether the file carries a signature the classifier would see
Classified(f, p, ok) ==
    [binary |-> is_binary_file(p.name, read_file(f, p, ok)).binary,
     reads |-> is_binary_file(p.name, read_file(f, p, ok)).reads,
     magic |-> is_binary_file(p.name, read_file(f, p, TRUE)).binary]

\* the outcomes that decided a procedure's course: fs::read inside
\* is_binary_file where the verdict hung on it (a file that carries a
\* signature under a name without a binary extension), then read_file_bytes,
\* then create_temp_file; an outcome that decided nothing is left at its default
UsedMagic(bin, env) ==
    [DefaultEnv EXCEPT !.read_magic = bin.binary \/ ~bin.magic \/ env.read_magic]

UsedRead(bin, env) == [UsedMagic(bin, env) EXCEPT !.read_full = env.read_full]

UsedTemp(bin, env) == [UsedRead(bin, env) EXCEPT !.temp = env.temp]

\* launch_app(..)? decides what the single-file commands return
Launched(used, env) == [used EXCEPT !.launch = env.launch]

\* ---- batch_convert: one iteration of the loop on path p over file system
\* f, the environment deciding env. The result of launch_app is dropped
\* (let _ =). Each operator is the rest of the loop body from one call on.

\* Ok(temp_path) / Err(e) of create_temp_file
batch_after_temp(p, env, bin, detection, tmp) ==
    IF tmp.ok
    THEN Did(Counted("converted_count", FileResult(p, "converted", Some(detection.encoding_name), None)),
             tmp.fs, TraceConv(bin) \o <<"create_temp_file", "launch_app">>,
             tmp.writes, UsedTemp(bin, env))
    ELSE Did(Counted("error_count", FileResult(p, "error", Some(detection.encoding_name), Some(tmp.err))),
             tmp.fs, TraceConv(bin) \o <<"create_temp_file">>,
             tmp.writes, UsedTemp(bin, env))

\* Ok(converted) / Err(e) of convert_to_utf8_bom
batch_after_convert(f, p, env, bin, detection, conv) ==
    IF ~conv.ok
    THEN Did(Counted("error_count", FileResult(p, "error", Some(detection.encoding_name), Some(conv.err))),
             f, TraceConv(bin), {}, UsedRead(bin, env))
    ELSE batch_after_temp(p, env, bin, detection,
                          create_temp_file(f, p.name, conv.bytes, env.temp))

\* smart_detect_encoding followed by a gate: below 0.75 nothing is converted
batch_after_detect_gated(f, p, env, bin, bytes, detection) ==
    IF BigLess(detection.confidence, FDiv(3, 4))
    THEN Did(Counted("error_count", FileResult(p, "error", Some(detection.encoding_name), Some("low confidence"))),
             f, TraceRead(bin) \o <<"smart_detect_encoding">>, {}, UsedRead(bin, env))
    ELSE batch_after_convert(f, p, env, bin, detection,
                             convert_to_utf8_bom(bytes, detection.encoding_name))

\* let detection = smart_detect_encoding(&data)
batch_after_detect(f, p, env, bin, bytes, detection) ==
    batch_after_convert(f, p, env, bin, detection,
                        convert_to_utf8_bom(bytes, detection.encoding_name))

\* match encoder::read_file_bytes(path)
batch_after_read(f, p, env, bin, rd) ==
    IF ~rd.ok
    THEN Did(Counted("error_count", FileResult(p, "error", None, Some("io error"))),
             f, TraceHead(bin) \o <<"read_file_bytes">>, {}, UsedRead(bin, env))
    ELSE IF is_already_utf8(rd.bytes)
    THEN Did(Counted("utf8_count", FileResult(p, "already_utf8", Some("UTF-8"), None)),
             f, TraceRead(bin) \o <<"launch_app">>, {}, UsedRead(bin, env))
    ELSE batch_after_detect(f, p, env, bin, rd.bytes,
                            smart_detect_encoding(rd.bytes))

\* if encoder::is_binary_file(path)
batch_after_classify(f, p, env, bin) ==
    IF bin.binary
    THEN Did(Counted("binary_count", FileResult(p, "binary", None, None)),
             f, TraceHead(bin) \o <<"launch_app">>, {}, UsedMagic(bin, env))
    ELSE batch_after_read(f, p, env, bin, read_file(f, p, env.read_full))

\* the body of `for file_path in &file_paths`
batch_item(f, p, env) ==
    IF f[p] = Missing
    THEN Did(Counted("error_count", FileResult(p, "error", None, Some("File not found"))),
             f, <<"exists">>, {}, DefaultEnv)
    ELSE batch_after_classify(f, p, env, Classified(f, p, env.read_magic))

\* ---- detect_and_convert(file_path); every `?` returns the Err at once

Err(msg) == [ok |-> FALSE, err |-> msg]

ConvertResult(p, is_binary, enc, confidence, temp_file_path) ==
    [ok |-> TRUE, auto_converted |-> TRUE, is_binary |-> is_binary,
     detected_encoding |-> enc, confidence |-> confidence,
     temp_file_path |-> temp_file_path, original_path |-> p,
     file_name |-> p.name]

\* launcher::launch_app(..)?; Ok(value)
LaunchThen(launched, value) == IF launched.ok THEN value ELSE Err(launched.err)

dac_after_temp(p, env, bin, detection, tmp) ==
    IF ~tmp.ok
    THEN Did(Err(tmp.err), tmp.fs, TraceConv(bin) \o <<"create_temp_file">>,
             tmp.writes, UsedTemp(bin, env))
    ELSE Did(LaunchThen(launch_app(env.launch),
                        ConvertResult(p, FALSE, detection.encoding_name,
                                      detection.confidence,
                                      Some(tmp.path))),
             tmp.fs, TraceConv(bin) \o <<"create_temp_file", "launch_app">>,
             tmp.writes, Launched(UsedTemp(bin, env), env))

dac_after_convert(f, p, env, bin, detection, conv) ==
    IF ~conv.ok
    THEN Did(Err(conv.err), f, TraceConv(bin), {}, UsedRead(bin, env))
    ELSE dac_after_temp(p, env, bin, detection,
                        create_temp_file(f, p.name, conv.bytes, env.temp))

dac_after_detect(f, p, env, bin, bytes, detection) ==
    dac_after_convert(f, p, env, bin, detection,
                      convert_to_utf8_bom(bytes, detection.encoding_name))

dac_after_read(f, p, env, bin, rd) ==
    IF ~rd.ok
    THEN Did(Err("Failed to read file"), f,
             TraceHead(bin) \o <<"read_file_bytes">>, {}, UsedRead(bin, env))
    ELSE IF is_already_utf8(rd.bytes)
    THEN Did(LaunchThen(launch_app(env.launch),
                        ConvertResult(p, FALSE, "UTF-8", FInt(1), None)),
             f, TraceRead(bin) \o <<"launch_app">>, {}, Launched(UsedRead(bin, env), env))
    ELSE dac_after_detect(f, p, env, bin, rd.bytes,
                          smart_detect_encoding(rd.bytes))

dac_after_classify(f, p, env, bin) ==
    IF bin.binary
    THEN Did(LaunchThen(launch_app(env.launch),
                        ConvertResult(p, TRUE, "binary", FInt(1), None)),
             f, TraceHead(bin) \o <<"launch_app">>, {}, Launched(UsedMagic(bin, env), env))
    ELSE dac_after_read(f, p, env, bin, read_file(f, p, env.read_full))

\* lib.rs detect_and_convert
detect_and_convert(f, p, env) ==
    IF f[p] = Missing
    THEN Did(Err("File not found"), f, <<"exists">>, {}, DefaultEnv)
    ELSE dac_after_classify(f, p, env, Classified(f, p, env.read_magic))

\* ---- process_file_silent(file_path)

Ok(v) == [ok |-> TRUE, val |-> v]

pfs_after_temp(p, env, bin, tmp) ==
    IF ~tmp.ok
    THEN Did(Err(tmp.err), tmp.fs, TraceConv(bin) \o <<"create_temp_file">>,
             tmp.writes, UsedTemp(bin, env))
    ELSE Did(LaunchThen(launch_app(env.launch), Ok(TRUE)),
             tmp.fs, TraceConv(bin) \o <<"create_temp_file", "launch_app">>,
             tmp.writes, Launched(UsedTemp(bin, env), env))

pfs_after_convert(f, p, env, bin, conv) ==
    IF ~conv.ok
    THEN Did(Err(conv.err), f, TraceConv(bin), {}, UsedRead(bin, env))
    ELSE pfs_after_temp(p, env, bin,
                        create_temp_file(f, p.name, conv.bytes, env.temp))

pfs_after_detect(f, p, env, bin, bytes, detection) ==
    pfs_after_convert(f, p, env, bin,
                      convert_to_utf8_bom(bytes, detection.encoding_name))

pfs_after_read(f, p, env, bin, rd) ==
    IF ~rd.ok
    THEN Did(Err("Failed to read file"), f,
             TraceHead(bin) \o <<"read_file_bytes">>, {}, UsedRead(bin, env))
    ELSE IF is_already_utf8(rd.bytes)
    THEN Did(LaunchThen(launch_app(env.launch), Ok(TRUE)),
             f, TraceRead(bin) \o <<"launch_app">>, {}, Launched(UsedRead(bin, env), env))
    ELSE pfs_after_detect(f, p, env, bin, rd.bytes,
                          smart_detect_encoding(rd.bytes))

pfs_after_classify(f, p, env, bin) ==
    IF bin.binary
    THEN Did(LaunchThen(launch_app(env.launch), Ok(TRUE)),
             f, TraceHead(bin) \o <<"launch_app">>, {}, Launched(UsedMagic(bin, env), env))
    ELSE pfs_after_read(f, p, env, bin, read_file(f, p, env.read_full))

\* process_file_silent when a missing file is an error, as in the other two
process_file_silent_missing_is_error(f, p, env) ==
    IF f[p] = Missing
    THEN Did(Err("File not found"), f, <<"exists">>, {}, DefaultEnv)
    ELSE pfs_after_classify(f, p, env, Classified(f, p, env.read_magic))

\* lib.rs process_file_silent
process_file_silent(f, p, env) ==
    IF f[p] = Missing
    THEN Did(Ok(FALSE), f, <<"exists">>, {}, DefaultEnv)
    ELSE pfs_after_classify(f, p, env, Classified(f, p, env.read_magic))

-----------------------------------------------------------------------------
(* lib.rs: the commands as steps *)

CmdIdle ==
    /\ pc = "idle" /\ cmd = "none" /\ file_paths = <<>> /\ idx = 0
    /\ results = <<>> /\ converted_count = 0 /\ utf8_count = 0
    /\ binary_count = 0 /\ error_count = 0 /\ ret = <<>> /\ trace = <<>>
    /\ envs = <<>> /\ writes = {}

InitCmd ==
    /\ fs \in {f \in [AllPaths -> {Missing, cSjis, cUtf8, cZip, cEuro}] :
                  \A p \in AllPaths : f[p] \in InitialContents(p)}
    /\ fs0 = fs
    /\ CmdIdle

\* batch_convert is invoked: cfg is loaded, the vector and counters are set up
BatchConvertStart ==
    /\ pc = "idle"
    /\ \E list \in BoundedSeq(Paths, MaxPaths) : file_paths' = list
    /\ pc' = "batch"
    /\ cmd' = "batch_convert"
    /\ idx' = 0
    /\ results' = <<>>
    /\ converted_count' = 0 /\ utf8_count' = 0
    /\ binary_count' = 0 /\ error_count' = 0
    /\ UNCHANGED <<fs, fs0, ret, trace, envs, writes>>
    /\ UNCHANGED <<codecVars, classVars>>

\* the tallies when the error branches leave error_count alone
Tally_without_errors(count, r, counter) ==
    count + (IF r.value.counter = counter /\ counter # "error_count" THEN 1 ELSE 0)

\* `x_count += 1` in the branch taken, for the counter named
Tally(count, r, counter) == count + (IF r.value.counter = counter THEN 1 ELSE 0)

\* the push and the counter update that end an iteration
BatchPush(r) ==
    /\ results' = Append(results, r.value.result)
    /\ converted_count' = Tally(converted_count, r, "converted_count")
    /\ utf8_count' = Tally(utf8_count, r, "utf8_count")
    /\ binary_count' = Tally(binary_count, r, "binary_count")
    /\ error_count' = Tally(error_count, r, "error_count")
    /\ fs' = r.fs
    /\ trace' = r.trace
    /\ envs' = Append(envs, r.used)
    /\ writes' = writes \cup r.writes

\* batch_convert drops what launch_app returns: its outcome is left at the default
BatchEnv == {env \in Env : env.launch}

\* one iteration of `for file_path in &file_paths`
BatchStep ==
    /\ pc = "batch"
    /\ idx < Len(file_paths)
    /\ \E env \in BatchEnv : BatchPush(batch_item(fs, file_paths[idx + 1], env))
    /\ idx' = idx + 1
    /\ UNCHANGED <<fs0, pc, cmd, file_paths, ret>>
    /\ UNCHANGED <<codecVars, classVars>>

\* the loop is over: Ok(BatchResult { .. })
BatchReturn ==
    /\ pc = "batch"
    /\ idx = Len(file_paths)
    /\ pc' = "done"
    /\ ret' = [ok |-> TRUE, total |-> Len(file_paths),
               converted |-> converted_count, already_utf8 |-> utf8_count,
               binary |-> binary_count, errors |-> error_count,
               results |-> results]
    /\ UNCHANGED <<fs, fs0, cmd, file_paths, idx, results, converted_count,
                   utf8_count, binary_count, error_count, trace, envs, writes>>
    /\ UNCHANGED <<codecVars, classVars>>

\* a single-file command returns
Return(p, r) ==
    /\ file_paths' = <<p>>
    /\ ret' = r.value
    /\ fs' = r.fs
    /\ trace' = r.trace
    /\ envs' = <<r.used>>
    /\ writes' = writes \cup r.writes

DetectAndConvert ==
    /\ pc = "idle"
    /\ \E p \in Paths, env \in Env : Return(p, detect_and_convert(fs, p, env))
    /\ pc' = "done"
    /\ cmd' = "detect_and_convert"
    /\ UNCHANGED <<fs0, idx, results, converted_count, utf8_count,
                   binary_count, error_count>>
    /\ UNCHANGED <<codecVars, classVars>>

ProcessFileSilent ==
    /\ pc = "idle"
    /\ \E p \in Paths, env \in Env : Return(p, process_file_silent(fs, p, env))
    /\ pc' = "done"
    /\ cmd' = "process_file_silent"
    /\ UNCHANGED <<fs0, idx, results, converted_count, utf8_count,
                   binary_count, error_count>>
    /\ UNCHANGED <<codecVars, classVars>>

-----------------------------------------------------------------------------
(* Specifications *)

\* the commands of lib.rs over a file system
Init == InitCmd /\ data = <<>> /\ CodecIdle /\ ClassIdle

Next ==
    \/ BatchConvertStart
    \/ BatchStep
    \/ BatchReturn
    \/ DetectAndConvert
    \/ ProcessFileSilent

Spec == Init /\ [][Next]_vars

\* the codec functions called on bounded byte sequences
InitC == InitCodec /\ ClassIdle /\ CmdIdle /\ fs = <<>> /\ fs0 = <<>>

NextC ==
    \/ CallSmartDetect
    \/ CallConvert
    \/ CallIsAlreadyUtf8
    \/ CallStripBom
    \/ CallStripBomAgain
    \/ CallScoreAllEncodings
    \/ CallBestEncoding

SpecCodec == InitC /\ [][NextC]_vars

\* the classifier called on bounded files
InitK == InitClassify /\ data = <<>> /\ CodecIdle /\ CmdIdle /\ fs = <<>> /\ fs0 = <<>>

NextK == CallIsBinaryFile

SpecClassify == InitK /\ [][NextK]_vars

-----------------------------------------------------------------------------
(* Properties of the codec functions, under SpecCodec *)

\* the encoding a leading byte-order mark stands for
MarkedEncoding(d) ==
    IF StartsWith(d, UTF8_BOM) THEN "UTF-8"
    ELSE IF StartsWith(d, UTF16LE_BOM) THEN "UTF-16LE"
    ELSE "UTF-16BE"

\* C3: for bytes that start with EF BB BF, FF FE or FE FF,
\* smart_detect_encoding returns confidence exactly 1.0 and the encoding the
\* mark stands for, whatever follows, and the scorer is not called.
C3_BomDetectionWins ==
    (op = "smart_detect_encoding"
       /\ (StartsWith(data, UTF8_BOM) \/ StartsWith(data, UTF16LE_BOM)
             \/ StartsWith(data, UTF16BE_BOM)))
    => /\ out.confidence = FInt(1)
       /\ out.encoding_name = MarkedEncoding(data)
       /\ scorer_calls = 0

\* a UTF-16BE mark before bytes that are Shift_JIS text was detected
C3_Witness ==
    /\ op = "smart_detect_encoding"
    /\ data = UTF16BE_BOM \o <<130, 160>>
    /\ out.encoding_name = "UTF-16BE"
    /\ scorer_calls = 0

\* the bytes are the UTF-8 encoding of text
IsUtf8Of(decoded, text) == ~decoded.had_errors /\ decoded.text = text

\* the bytes are EF BB BF followed by the UTF-8 encoding of text
IsBomThenUtf8Of(bytes, text) ==
    StartsWith(bytes, UTF8_BOM) /\ IsUtf8Of(DecodeUtf8(Drop(bytes, 3)), text)

\* C4: for every supported encoding name and every byte sequence,
\* convert_to_utf8_bom returns Ok and the bytes returned are EF BB BF followed
\* by the UTF-8 encoding of the decoded text; it fails only on a name that
\* resolves to no encoding.
C4_LossyConversionSucceeds ==
    op = "convert_to_utf8_bom"
    => /\ label \in SupportedSet => out.ok
       /\ out.ok => IsBomThenUtf8Of(out.bytes,
                                    decode(for_label(label), strip_bom(data)).text)
       /\ ~out.ok => for_label(label) = "none" /\ out.err = "Unknown encoding"

\* bytes that are not Shift_JIS were converted from Shift_JIS: the output
\* carries U+FFFD (EF BF BD)
C4_Witness ==
    /\ op = "convert_to_utf8_bom"
    /\ label = "Shift_JIS"
    /\ data = <<130, 255, 97>>
    /\ out.ok
    /\ \E i \in 4..(Len(out.bytes) - 2) :
          out.bytes[i] = 239 /\ out.bytes[i + 1] = 191 /\ out.bytes[i + 2] = 189

\* C5: convert_to_utf8_bom fails with the unknown-encoding error for every
\* name outside {Shift_JIS, EUC-JP, ISO-2022-JP, UTF-8, UTF-16LE, UTF-16BE,
\* windows-1252}, for any input bytes.
C5_UnknownOutsideSupportedSet ==
    (op = "convert_to_utf8_bom" /\ label \notin SupportedSet)
    => ~out.ok /\ out.err = "Unknown encoding"

\* C6: strip_bom is idempotent: strip_bom(strip_bom(x)) = strip_bom(x) for
\* every byte sequence x, also one that begins with two byte-order marks.
C6_StripBomIdempotent ==
    op = "strip_bom_twice" => out.twice = out.once

\* the text of the converted bytes equals the text of the reference decoding
RoundTrips(res, ref) ==
    ~ref.had_errors => res.ok /\ IsBomThenUtf8Of(res.bytes, ref.text)

\* C7: round trip: for every supported encoding E and every byte sequence
\* that decodes under E without unmappable sequences, also one whose first
\* bytes EF BB BF, FF FE or FE FF are content under E, the output of
\* convert_to_utf8_bom behind its BOM, decoded as UTF-8, is the string that
\* decoding the original bytes under E gives.
C7_RoundTrip ==
    (op = "convert_to_utf8_bom" /\ label \in SupportedSet)
    => RoundTrips(out, decode_without_bom_handling(label, data))

-----------------------------------------------------------------------------
(* Properties of the classifier, under SpecClassify *)

\* C8: a readable file of at least 4 bytes whose first 4 bytes are
\* 50 4B 03 04, D0 CF 11 E0 or 25 50 44 46 is classified binary by
\* is_binary_file, whatever its extension.
C8_SignatureMeansBinary ==
    (cres # None /\ cread /\ Len(cdata) >= 4
       /\ Take(cdata, 4) \in {ZIP_MAGIC, OLE2_MAGIC, PDF_MAGIC})
    => cres[1].binary

-----------------------------------------------------------------------------
(* Properties of the commands, under Spec *)

\* the number of results that carry a status
CountStatus(rs, status) == Cardinality({i \in 1..Len(rs) : rs[i].status = status})

\* the four tallies count the results by status and add up to n
IsPartition(rs, n, converted, already_utf8, binary, errors) ==
    /\ Len(rs) = n
    /\ converted = CountStatus(rs, "converted")
    /\ already_utf8 = CountStatus(rs, "already_utf8")
    /\ binary = CountStatus(rs, "binary")
    /\ errors = CountStatus(rs, "error")
    /\ converted + already_utf8 + binary + errors = n

\* C1: in batch_convert, after each processed path k the results list has
\* length k, results[i].file_path is the i-th input path, the four tallies
\* count the results by status and add up to k; the value returned has
\* total = N = the length of its results.
C1_BatchPartition ==
    cmd = "batch_convert"
    => /\ \A i \in 1..Len(results) : results[i].file_path = file_paths[i]
       /\ IsPartition(results, idx, converted_count, utf8_count,
                      binary_count, error_count)
       /\ pc = "done"
          => /\ ret.total = Len(file_paths)
             /\ IsPartition(ret.results, ret.total, ret.converted,
                            ret.already_utf8, ret.binary, ret.errors)

\* a batch of three paths returned one converted, one binary and one error
C1_Witness ==
    /\ cmd = "batch_convert" /\ pc = "done"
    /\ ret.total = 3
    /\ ret.converted = 1 /\ ret.binary = 1 /\ ret.errors = 1

\* a sequence without its i-th element
Without(seq, i) == SubSeq(seq, 1, i - 1) \o SubSeq(seq, i + 1, Len(seq))

RECURSIVE BatchResults(_, _, _, _)
\* the results batch_convert gives for `list` over file system f when the
\* environment decides es[k] for the k-th path
BatchResults(f, list, es, acc) ==
    IF list = <<>> THEN acc
    ELSE LET r == batch_item(f, Head(list), Head(es))
         IN BatchResults(r.fs, Tail(list), Tail(es), Append(acc, r.value.result))

\* C2: in batch_convert a failure on one path is recorded as that path's
\* result with status "error" and a non-empty error_message, every later path
\* is processed exactly as it would be if the failing path were absent, and
\* batch_convert returns Ok.
C2_FailureIsolation ==
    (cmd = "batch_convert" /\ pc = "done")
    => /\ ret.ok
       /\ \A i \in 1..Len(results) :
             results[i].status = "error"
             => /\ results[i].error_message \notin {None, Some("")}
                /\ BatchResults(fs0, Without(file_paths, i), Without(envs, i), <<>>)
                     = Without(results, i)

\* the path a command has processed last, once it has processed one
Processed ==
    IF cmd = "batch_convert" THEN idx >= 1 ELSE cmd # "none" /\ pc = "done"

LastPath == IF cmd = "batch_convert" THEN file_paths[idx] ELSE file_paths[1]

LastEnv == envs[Len(envs)]

\* the extension is on the denylist in some letter case
Denylisted(name) ==
    extension(name).some /\ to_lowercase(extension(name).val) \in BINARY_EXTENSIONS

\* the command ended in its binary outcome for the last path
BinaryOutcome ==
    CASE cmd = "batch_convert" -> results[idx].status = "binary"
      [] cmd = "detect_and_convert" ->
            ret.ok /\ ret.is_binary /\ ret.detected_encoding = "binary"
              /\ ret.temp_file_path = None
      [] cmd = "process_file_silent" -> ret = Ok(TRUE)

\* no byte of the file was read, nothing was detected, converted or written
NothingRead ==
    \A k \in 1..Len(trace) :
        trace[k] \notin {"fs_read", "read_file_bytes", "is_already_utf8",
                         "smart_detect_encoding", "convert_to_utf8_bom",
                         "create_temp_file"}

\* a file with a denylisted extension has just been processed
DenylistedCase == Processed /\ fs[LastPath] # Missing /\ Denylisted(LastPath.name)

\* the statement of C9 as the spec has it: a file whose extension is on the
\* denylist in any letter case is classified binary before any byte is read,
\* and batch_convert, detect_and_convert and process_file_silent end in the
\* binary outcome without reading, detecting, converting or writing.
C9_DenylistAlwaysBinaryOutcome ==
    DenylistedCase => NothingRead /\ BinaryOutcome

\* C9: a file whose extension is on the denylist in any letter case is
\* classified binary before any byte is read; batch_convert ends in the
\* binary outcome, detect_and_convert and process_file_silent end in it
\* unless the viewer fails to start, when they return the launcher's error;
\* in every case nothing is read, detected, converted or written.
C9_DenylistShortCircuits ==
    DenylistedCase
    => /\ NothingRead
       /\ IF LastEnv.launch THEN BinaryOutcome
          ELSE cmd # "batch_convert" /\ ret = Err("Failed to open file")

\* r.Xls, holding a ZIP archive, went through detect_and_convert
C9_Witness ==
    /\ cmd = "detect_and_convert" /\ pc = "done"
    /\ file_paths = <<pX>> /\ fs[pX] = cZip
    /\ ret.ok /\ ret.is_binary

\* the last path was read in full and held UTF-8, with or without EF BB BF
Utf8Case ==
    /\ cmd = "batch_convert" /\ idx >= 1
    /\ fs[LastPath] # Missing
    /\ "read_file_bytes" \in {trace[k] : k \in 1..Len(trace)}
    /\ LastEnv.read_full
    /\ IsValidUtf8(IF StartsWith(fs[LastPath], UTF8_BOM)
                   THEN Drop(fs[LastPath], 3) ELSE fs[LastPath])

\* C10: a readable file that is not classified binary and whose bytes, after
\* an optional leading EF BB BF, are valid UTF-8 ends batch_convert's
\* iteration as already_utf8 with detected encoding "UTF-8";
\* smart_detect_encoding and convert_to_utf8_bom are not called and no temp
\* file is written for it.
C10_Utf8FastPath ==
    Utf8Case
    => /\ results[idx].status = "already_utf8"
       /\ results[idx].detected_encoding = Some("UTF-8")
       /\ \A k \in 1..Len(trace) :
             trace[k] \notin {"smart_detect_encoding", "convert_to_utf8_bom",
                              "create_temp_file"}

\* a.csv holding EF BB BF 61 was counted as already UTF-8
C10_Witness ==
    /\ cmd = "batch_convert" /\ idx >= 1
    /\ file_paths[idx] = pA /\ fs[pA] = cUtf8
    /\ results[idx].status = "already_utf8"
    /\ utf8_count >= 1

\* the paths batch_convert was given
InputPaths == {file_paths[i] : i \in 1..Len(file_paths)}

\* C11: read-only invariant: across a batch_convert run over any list of
\* paths, also paths inside the temp directory, no input path is written to;
\* every write goes to a path that is not among the input paths.
C11_InputsNeverWritten ==
    cmd = "batch_convert" => writes \cap InputPaths = {}

\* C12 (under SpecCodec): confidence 1.0 is reserved for BOM matches: for
\* bytes that do not begin with EF BB BF, FF FE or FE FF the confidence
\* smart_detect_encoding returns lies in [0, 1) and is never 1.0.
C12_FullConfidenceOnlyForBom ==
    (op = "smart_detect_encoding"
       /\ ~StartsWith(data, UTF8_BOM) /\ ~StartsWith(data, UTF16LE_BOM)
       /\ ~StartsWith(data, UTF16BE_BOM))
    => BigLess(out.confidence, FInt(1))

\* the score of each candidate, in the order of CANDIDATE_ENCODINGS
CandidateScores(d) ==
    [i \in 1..Len(CANDIDATE_ENCODINGS) |-> score_encoding(d, CANDIDATE_ENCODINGS[i])]

\* the place of a name in CANDIDATE_ENCODINGS
CandidateIndex(name) ==
    CHOOSE i \in 1..Len(CANDIDATE_ENCODINGS) : CANDIDATE_ENCODINGS[i] = name

\* ranked holds the candidates' scores, each once, in non-increasing score
\* order, equal scores in the order of CANDIDATE_ENCODINGS
IsStableRanking(ranked, scores) ==
    /\ Len(ranked) = Len(scores)
    /\ \A i \in 1..Len(scores) : \E k \in 1..Len(ranked) : ranked[k] = scores[i]
    /\ \A k \in 1..(Len(ranked) - 1) :
          \/ BigLess(ranked[k + 1].score, ranked[k].score)
          \/ /\ ranked[k + 1].score = ranked[k].score
             /\ CandidateIndex(ranked[k].encoding_name)
                  < CandidateIndex(ranked[k + 1].encoding_name)

\* best is the earliest candidate among those with the highest score
IsEarliestBest(best, scores) ==
    \E i \in 1..Len(scores) :
        /\ best = scores[i]
        /\ \A j \in 1..Len(scores) : ~BigLess(scores[i].score, scores[j].score)
        /\ \A j \in 1..(i - 1) : BigLess(scores[j].score, scores[i].score)

\* C13 (under SpecCodec): score_all_encodings returns the candidates in
\* non-increasing score order, candidates with equal scores in the order
\* Shift_JIS, EUC-JP, ISO-2022-JP, UTF-8, UTF-16LE, UTF-16BE, windows-1252;
\* best_encoding returns the earliest candidate in that order among those
\* with the highest score.
C13_RankingIsStable ==
    /\ op = "score_all_encodings" => IsStableRanking(out, CandidateScores(data))
    /\ op = "best_encoding" => IsEarliestBest(out, CandidateScores(data))

\* 82 A0 was ranked: Shift_JIS and UTF-16BE share the highest score and
\* Shift_JIS, the earlier candidate, comes first
C13_Witness ==
    /\ op = "score_all_encodings"
    /\ data = <<130, 160>>
    /\ out[1].encoding_name = "Shift_JIS"
    /\ out[2].encoding_name = "UTF-16BE"
    /\ out[1].score = out[2].score

\* the call was made for the last path
Called(name) == \E k \in 1..Len(trace) : trace[k] = name

\* the last path was classified as text, read, found not to be UTF-8 already
\* and handed to smart_detect_encoding
DetectedCase == Processed /\ Called("smart_detect_encoding")

\* the command ended in its converted outcome for the last path
ConvertedOutcome ==
    CASE cmd = "batch_convert" ->
            /\ results[idx].status = "converted"
            /\ results[idx].detected_encoding # None
            /\ results[idx].error_message = None
      [] cmd = "detect_and_convert" ->
            ret.ok /\ ~ret.is_binary /\ ret.temp_file_path # None
      [] cmd = "process_file_silent" -> ret = Ok(TRUE)

\* the bytes of the last path when the command began, where fs0 still tells
\* them: a single-file command, or the first path of a batch
FirstFile == cmd # "batch_convert" \/ idx = 1

\* the temp file holds the bytes converted from the encoding detected
TempHoldsConversion ==
    fs[temp_path_of(LastPath.name)]
      = convert_to_utf8_bom(fs0[LastPath],
                            smart_detect_encoding(fs0[LastPath]).encoding_name).bytes

DacKind(d) ==
    IF ~d.ok THEN "error"
    ELSE IF d.is_binary THEN "binary"
    ELSE IF d.temp_file_path = None THEN "already_utf8"
    ELSE "converted"

\* b, d and s are what batch_convert pushed, detect_and_convert returned and
\* process_file_silent returned for one file in one environment
Agree(b, d, s, launched, missing) ==
    IF ~launched
    THEN /\ b.status \in {"binary", "already_utf8", "converted"}
         /\ d = Err("Failed to open file")
         /\ s = Err("Failed to open file")
    ELSE /\ DacKind(d) = b.status
         /\ (s = Ok(TRUE)) <=> (b.status # "error")
         /\ b.status = "error" => IF missing THEN s = Ok(FALSE) ELSE s = d

\* the command that ran left what its procedure gives
Recorded(b, d, s) ==
    CASE cmd = "batch_convert" -> results[1] = b
      [] cmd = "detect_and_convert" -> ret = d
      [] cmd = "process_file_silent" -> ret = s

\* C15: for the same file and the same outcomes of reading, temp-file
\* creation and viewer launch, batch_convert assigns binary / already_utf8 /
\* converted / error exactly when detect_and_convert returns is_binary=true /
\* (is_binary=false, no temp path) / a temp path / Err, and
\* process_file_silent returns Ok(true) exactly for the first three; where
\* batch_convert assigns error the other two return the same Err, except that
\* process_file_silent returns Ok(false) for a missing file; and where the
\* viewer fails to start batch_convert keeps its status while the other two
\* return the launcher's error.
C15_ProceduresAgree ==
    (Processed /\ FirstFile)
    => /\ Agree(batch_item(fs0, LastPath, LastEnv).value.result,
                detect_and_convert(fs0, LastPath, LastEnv).value,
                process_file_silent(fs0, LastPath, LastEnv).value,
                LastEnv.launch, fs0[LastPath] = Missing)
       /\ Recorded(batch_item(fs0, LastPath, LastEnv).value.result,
                   detect_and_convert(fs0, LastPath, LastEnv).value,
                   process_file_silent(fs0, LastPath, LastEnv).value)

\* a.csv holding 82 A0 went through detect_and_convert and came back with a
\* temp path; batch_convert gives the same file the status converted
C15_Witness ==
    /\ cmd = "detect_and_convert" /\ pc = "done"
    /\ file_paths = <<pA>> /\ fs0[pA] = cSjis
    /\ ret.ok /\ ret.temp_file_path # None
    /\ batch_item(fs0, pA, LastEnv).value.result.status = "converted"
    /\ process_file_silent(fs0, pA, LastEnv).value = Ok(TRUE)

====
